---- MODULE Spec2Model ----
(***************************************************************************)
(* Model of Sled_Control.ino: the Sequencer sketch that polls the serial   *)
(* link, on 'T' advances the sled until the IR sensor reads LOW and at     *)
(* least 500 ms have passed, and then pulses the Red, Green and Blue LEDs, *)
(* printing a handshake token at each pulse.                               *)
(*                                                                         *)
(* The program counter pc is the line of Sled_Control.ino about to run.    *)
(* unsigned long values are 32 bits wide and are kept as <<hi, lo>> pairs  *)
(* of 16-bit halves, so that the arithmetic wraps at 2^32 as on the board. *)
(***************************************************************************)
EXTENDS Integers, Sequences, FiniteSets, TLC

(* ---------------- bounds of the model ---------------- *)

\* Total number of bytes the host sends in one behaviour.
MaxInput == 3

\* Time (ms) after loop entry up to which the clock is followed in short
\* steps inside one actuation wait-loop.
MaxWait == 500

\* The amount (ms) by which the clock advances in a short step of the
\* wait-loop: with MaxWait it makes the loop see 0, 499 and 500 ms.
TickMs == 499

(* ---------------- program constants ---------------- *)

LO_PIN == 12
G_PIN == 11
R_PIN == 10
B_PIN == 9
BZZ_PIN == 8
MTR_PIN == 6

HIGH == 1
LOW == 0

\* The characters of the serial link: the trigger, the tokens, two bytes the
\* host may send that are not the trigger, and the CR LF of println.
ChT == 84
ChX == 88
ChLowerT == 116
ChR == 82
ChG == 71
ChB == 66
CR == 13
LF == 10

\* Half of an unsigned long: 2^16.
W16 == 65536

\* The high half by which the clock advances in a long step of the
\* wait-loop: LongHi * 2^16 ms (nearly 25 days), the largest multiple of
\* 2^16 ms below 2^31.
LongHi == (W16 \div 2) - 1

OutPins == {LO_PIN, G_PIN, R_PIN, B_PIN, BZZ_PIN, MTR_PIN}
LedPins == {R_PIN, G_PIN, B_PIN}

\* The bytes the host may send: the trigger, two bytes that are not the
\* trigger (one of them the lower-case letter) and a byte equal to a token.
InBytes == {ChT, ChX, ChLowerT, ChR}

\* Clock values (millis) at which the Sequencer may be found polling before
\* the first byte: just after reset, and 300 ms before the 2^32 rollover.
BootClocks == {<<0, 0>>, <<65535, 65236>>}

(* ---------------- 32-bit unsigned arithmetic ---------------- *)

\* a + n modulo 2^32, n a small non-negative number of milliseconds.
U32Add(a, n) ==
    LET s == a[2] + n
    IN  <<(a[1] + (s \div W16)) % W16, s % W16>>

\* The subtraction done on each 16-bit half separately, the borrow lost.
U32SubNoBorrow(a, b) ==
    <<(a[1] - b[1]) % W16, (a[2] - b[2]) % W16>>

\* a - b modulo 2^32 (unsigned long subtraction).
U32Sub(a, b) ==
    LET d == a[2] - b[2]
        borrow == IF d < 0 THEN 1 ELSE 0
    IN  <<(a[1] - b[1] - borrow) % W16, d % W16>>

\* a < n for an unsigned long a and a constant n below 2^16.
U32Less(a, n) == a[1] = 0 /\ a[2] < n

(* ---------------- serial helpers ---------------- *)

\* char(inByte): on the AVR char is a signed 8-bit type.
CharOf(b) == IF b % 256 > 127 THEN (b % 256) - 256 ELSE b % 256

\* Serial.println of one character: the character's byte, then CR LF.
PrintlnChar(c) == <<c % 256, CR, LF>>

VARIABLES
    pc,         \* line of the sketch about to run; 38 is the poll in loop()
    rx,         \* bytes received by the UART and not yet read
    inByte,     \* global inByte
    curMil,     \* global curMil
    prevMil,    \* global prevMil
    sensorVal,  \* local sensorVal of the triggered branch
    pin,        \* value last written to each output pin
    irPin,      \* level of the IR sensor input
    clock,      \* millis(): the millisecond counter
    out,        \* lines written to the serial link, in order
    src,        \* observer: for each line of out, the statement that wrote it
    inlog,      \* observer: every byte the host sent, in order
    elapsed,    \* observer: ms of clock since the current wait-loop was entered,
                \*           as <<hi, lo>> like the clock itself
    lit,        \* observer: per LED pin, ms at full output in the current cycle
    litBz,      \* observer: the part of lit during which the buzzer was HIGH
    age,        \* observer: per token, ms since it was printed in this cycle, or -1
    ran,        \* observer: the wait-loop body has run in the current cycle
    sawLow,     \* observer: a sensor sample of the current cycle read LOW
    mtrIdle,    \* observer: ms since the motor was written LOW in this cycle, or -1
    started,    \* observer: number of 'T' bytes accepted
    finished    \* observer: number of cycles whose last statement has run

vars == <<pc, rx, inByte, curMil, prevMil, sensorVal, pin, irPin, clock, out,
          src, inlog, elapsed, lit, litBz, age, ran, sawLow, mtrIdle, started,
          finished>>

prog == <<pc, inByte, curMil, prevMil, sensorVal, pin, out>>
obs == <<src, elapsed, lit, litBz, age, ran, sawLow, mtrIdle, started, finished>>

Tokens == {"R", "G", "B"}
NoAge == [t \in Tokens |-> -1]
NoLit == [p \in LedPins |-> 0]

\* The state after setup(): pins are outputs at LOW, the globals hold their
\* initialisers, nothing has been received or printed.
Init ==
    /\ pc = 38
    /\ rx = <<>>
    /\ inByte = 0
    /\ curMil = <<0, 0>>
    /\ prevMil = <<0, 0>>
    /\ sensorVal = HIGH
    /\ pin = [p \in OutPins |-> LOW]
    /\ irPin \in {LOW, HIGH}
    /\ clock \in BootClocks
    /\ out = <<>>
    /\ src = <<>>
    /\ inlog = <<>>
    /\ elapsed = <<0, 0>>
    /\ lit = NoLit
    /\ litBz = NoLit
    /\ age = NoAge
    /\ ran = FALSE
    /\ sawLow = FALSE
    /\ mtrIdle = -1
    /\ started = 0
    /\ finished = 0

\* The passage of n ms as the observers see it.
Passes(n) ==
    /\ lit' = [p \in LedPins |-> IF pin[p] = 255 THEN lit[p] + n ELSE lit[p]]
    /\ litBz' = [p \in LedPins |->
                   IF pin[p] = 255 /\ pin[BZZ_PIN] = HIGH
                   THEN litBz[p] + n ELSE litBz[p]]
    /\ age' = [t \in Tokens |-> IF age[t] >= 0 THEN age[t] + n ELSE age[t]]
    /\ mtrIdle' = IF mtrIdle >= 0 THEN mtrIdle + n ELSE mtrIdle

(* ---------------- the environment ---------------- *)

\* The host sends one byte; the UART queues it.
Arrive ==
    /\ Len(inlog) < MaxInput
    /\ \E b \in InBytes :
         /\ rx' = Append(rx, b)
         /\ inlog' = Append(inlog, b)
    /\ UNCHANGED <<prog, irPin, clock, src, elapsed, lit, litBz, age, ran, sawLow,
                   mtrIdle, started, finished>>

\* The IR sensor changes level.
SensorChange ==
    /\ irPin' = IF irPin = HIGH THEN LOW ELSE HIGH
    /\ UNCHANGED <<prog, rx, clock, inlog, obs>>

InWaitLoop == pc \in {47, 48, 49, 50, 51}

\* The time since loop entry is at least n ms (n below 2^16).
ElapsedAtLeast(n) == elapsed[1] > 0 \/ elapsed[2] >= n

\* The millisecond counter advances by a short step while the wait-loop
\* spins: by TickMs, or by what is left until MaxWait.
Tick ==
    /\ InWaitLoop
    /\ elapsed[1] = 0
    /\ elapsed[2] < MaxWait
    /\ LET d == IF elapsed[2] + TickMs <= MaxWait THEN TickMs
                ELSE MaxWait - elapsed[2]
       IN  /\ clock' = U32Add(clock, d)
           /\ elapsed' = <<0, elapsed[2] + d>>
           /\ Passes(d)
    /\ UNCHANGED <<prog, rx, irPin, src, inlog, ran, sawLow, started, finished>>

\* The millisecond counter advances by a long step while the wait-loop
\* spins (the sensor stays HIGH for days): by LongHi * 2^16 ms, taken
\* TickMs ms after entry, so that the wait is far longer than 500 ms while
\* the low half of its length is still short of them.
TickLong ==
    /\ InWaitLoop
    /\ elapsed = <<0, TickMs>>
    /\ clock' = <<(clock[1] + LongHi) % W16, clock[2]>>
    /\ elapsed' = <<elapsed[1] + LongHi, elapsed[2]>>
    /\ Passes(LongHi * W16)
    /\ UNCHANGED <<prog, rx, irPin, src, inlog, ran, sawLow, started, finished>>

(* ---------------- the statements of the triggered branch ---------------- *)

DW(p, v) == [op |-> "write", p |-> p, v |-> v]
DelayMs(n) == [op |-> "delay", p |-> 0, v |-> n]
PrintTok(c) == [op |-> "print", p |-> 0, v |-> c]

\* Lines 48-49: the body of the wait-loop drives the buzzer and the motor.
DriveStage ==
    (48 :> DW(BZZ_PIN, HIGH)) @@ (49 :> DW(MTR_PIN, HIGH))

\* Buzzer and motor off without the settle delay of line 55.
StopStageNoSettle ==
    (53 :> DW(BZZ_PIN, LOW)) @@ (54 :> DW(MTR_PIN, LOW))

\* Lines 53-55: buzzer and motor off, then the settle delay.
StopStage ==
    (53 :> DW(BZZ_PIN, LOW)) @@ (54 :> DW(MTR_PIN, LOW)) @@ (55 :> DelayMs(500))

\* The Red pulse printing the Green token (a copy-paste slip).
RedStagePrintsG ==
    (58 :> DW(BZZ_PIN, HIGH)) @@ (59 :> DW(R_PIN, 255)) @@ (60 :> PrintTok(ChG))
    @@ (61 :> DelayMs(100)) @@ (62 :> DW(BZZ_PIN, LOW)) @@ (63 :> DelayMs(500))
    @@ (65 :> DW(R_PIN, 0))

\* The Red pulse with lines 59 and 60 exchanged: the token before the LED.
RedStageTokenFirst ==
    (58 :> DW(BZZ_PIN, HIGH)) @@ (59 :> PrintTok(ChR)) @@ (60 :> DW(R_PIN, 255))
    @@ (61 :> DelayMs(100)) @@ (62 :> DW(BZZ_PIN, LOW)) @@ (63 :> DelayMs(500))
    @@ (65 :> DW(R_PIN, 0))

\* Lines 58-65: the Red pulse.
RedStage ==
    (58 :> DW(BZZ_PIN, HIGH)) @@ (59 :> DW(R_PIN, 255)) @@ (60 :> PrintTok(ChR))
    @@ (61 :> DelayMs(100)) @@ (62 :> DW(BZZ_PIN, LOW)) @@ (63 :> DelayMs(500))
    @@ (65 :> DW(R_PIN, 0))

\* The Green pulse printing the Blue token (a copy-paste slip).
GreenStagePrintsB ==
    (66 :> DW(BZZ_PIN, HIGH)) @@ (68 :> DW(G_PIN, 255)) @@ (69 :> PrintTok(ChB))
    @@ (70 :> DelayMs(100)) @@ (71 :> DW(BZZ_PIN, LOW)) @@ (72 :> DelayMs(500))
    @@ (73 :> DW(G_PIN, 0))

\* The Green pulse without line 73: the channel is left at full output.
GreenStageNoOff ==
    (66 :> DW(BZZ_PIN, HIGH)) @@ (68 :> DW(G_PIN, 255)) @@ (69 :> PrintTok(ChG))
    @@ (70 :> DelayMs(100)) @@ (71 :> DW(BZZ_PIN, LOW)) @@ (72 :> DelayMs(500))

\* Lines 66-73: the Green pulse.
GreenStage ==
    (66 :> DW(BZZ_PIN, HIGH)) @@ (68 :> DW(G_PIN, 255)) @@ (69 :> PrintTok(ChG))
    @@ (70 :> DelayMs(100)) @@ (71 :> DW(BZZ_PIN, LOW)) @@ (72 :> DelayMs(500))
    @@ (73 :> DW(G_PIN, 0))

\* The Blue pulse without the 500 ms hold of line 80.
BlueStageNoHold ==
    (74 :> DW(BZZ_PIN, HIGH)) @@ (76 :> DW(B_PIN, 255)) @@ (77 :> PrintTok(ChB))
    @@ (78 :> DelayMs(100)) @@ (79 :> DW(BZZ_PIN, LOW))
    @@ (81 :> DW(B_PIN, 0))

\* The Blue pulse without line 81: the channel is left at full output.
BlueStageNoOff ==
    (74 :> DW(BZZ_PIN, HIGH)) @@ (76 :> DW(B_PIN, 255)) @@ (77 :> PrintTok(ChB))
    @@ (78 :> DelayMs(100)) @@ (79 :> DW(BZZ_PIN, LOW)) @@ (80 :> DelayMs(500))

\* The Blue pulse without line 79: the buzzer is left HIGH.
BlueStageBuzzerLeftOn ==
    (74 :> DW(BZZ_PIN, HIGH)) @@ (76 :> DW(B_PIN, 255)) @@ (77 :> PrintTok(ChB))
    @@ (78 :> DelayMs(100)) @@ (80 :> DelayMs(500))
    @@ (81 :> DW(B_PIN, 0))

\* Lines 74-81: the Blue pulse.
BlueStage ==
    (74 :> DW(BZZ_PIN, HIGH)) @@ (76 :> DW(B_PIN, 255)) @@ (77 :> PrintTok(ChB))
    @@ (78 :> DelayMs(100)) @@ (79 :> DW(BZZ_PIN, LOW)) @@ (80 :> DelayMs(500))
    @@ (81 :> DW(B_PIN, 0))

Stmt == DriveStage @@ StopStage @@ RedStage @@ GreenStage @@ BlueStage

\* The line that runs after line l: the next statement of the branch; after
\* the sensor is sampled (50) and the clock read (51) the loop test (47)
\* runs again, and after the last statement loop() returns and is called
\* again (38).
NextLine(l) ==
    IF l = 51 THEN 47
    ELSE LET later == {m \in (DOMAIN Stmt) \cup {50, 51} : m > l}
         IN  IF later = {} THEN 38
             ELSE CHOOSE m \in later : \A k \in later : m <= k

(* ---------------- loop() ---------------- *)

\* The serial link polled inside the wait-loop as well.
CanPollInWait == pc \in {38, 47}

\* Line 38: Serial.available() > 0 is tested only when loop() starts.
CanPoll == pc = 38

\* The trigger test ignoring the case of the letter.
IsTriggerAnyCase(b) == CharOf(b) \in {ChT, ChLowerT}

\* Line 42: the trigger test.
IsTrigger(b) == CharOf(b) = ChT

\* Lines 38-42: read one byte, echo it, and branch on the trigger.
ReadByte ==
    /\ CanPoll
    /\ Len(rx) > 0
    /\ inByte' = Head(rx)
    /\ rx' = Tail(rx)
    /\ out' = Append(out, PrintlnChar(CharOf(Head(rx))))
    /\ src' = Append(src, "echo")
    /\ IF IsTrigger(Head(rx))
       THEN /\ pc' = 43
            /\ started' = started + 1
            /\ lit' = NoLit
            /\ litBz' = NoLit
            /\ age' = NoAge
            /\ ran' = FALSE
            /\ sawLow' = FALSE
            /\ mtrIdle' = -1
       ELSE /\ pc' = 38
            /\ UNCHANGED <<started, lit, litBz, age, ran, sawLow, mtrIdle>>
    /\ UNCHANGED <<curMil, prevMil, sensorVal, pin, irPin, clock, inlog,
                   elapsed, finished>>

\* sensorVal initialised to LOW.
EntrySensorValLow == LOW

\* Line 43: the value sensorVal is given before the wait-loop.
EntrySensorVal == HIGH

\* Lines 43-46: sensorVal is initialised and the entry time is taken.
EnterWait ==
    /\ pc = 43
    /\ sensorVal' = EntrySensorVal
    /\ prevMil' = clock
    /\ elapsed' = <<0, 0>>
    /\ pc' = 47
    /\ UNCHANGED <<rx, inByte, curMil, pin, irPin, clock, out, src, inlog,
                   lit, litBz, age, ran, sawLow, mtrIdle, started, finished>>

\* The condition with && in place of ||.
KeepWaitingBoth(cur, prev, sv) == U32Less(U32Sub(cur, prev), 500) /\ sv = HIGH

\* Line 47: the condition of the while loop.
KeepWaiting(cur, prev, sv) == U32Less(U32Sub(cur, prev), 500) \/ sv = HIGH

\* Line 47: test the condition; enter the body or leave the loop.
WaitTest ==
    /\ pc = 47
    /\ pc' = IF KeepWaiting(curMil, prevMil, sensorVal) THEN 48 ELSE 53
    /\ UNCHANGED <<rx, inByte, curMil, prevMil, sensorVal, pin, irPin, clock,
                   out, inlog, obs>>

\* The sample with the sensor's polarity inverted.
SampleInverted(level) == IF level = HIGH THEN LOW ELSE HIGH

\* Line 50: the value digitalRead(IR_PIN) stores.
SampleOf(level) == level

\* Line 50: sample the IR sensor.
WaitSample ==
    /\ pc = 50
    /\ sensorVal' = SampleOf(irPin)
    /\ sawLow' = (sawLow \/ irPin = LOW)
    /\ pc' = NextLine(50)
    /\ UNCHANGED <<rx, inByte, curMil, prevMil, pin, irPin, clock, out, inlog,
                   src, elapsed, lit, litBz, age, ran, mtrIdle, started, finished>>

\* Line 51: read the clock.
WaitClock ==
    /\ pc = 51
    /\ curMil' = clock
    /\ ran' = TRUE
    /\ pc' = NextLine(51)
    /\ UNCHANGED <<rx, inByte, prevMil, sensorVal, pin, irPin, clock, out, inlog,
                   src, elapsed, lit, litBz, age, sawLow, mtrIdle, started, finished>>

\* The observer counts a cycle as finished when the statement at line l is
\* the last of the branch, so that loop() returns after it.
Returns(l) == finished' = IF NextLine(l) = 38 THEN finished + 1 ELSE finished

\* digitalWrite / analogWrite: the pin takes the value written.
PinWrite ==
    /\ pc \in DOMAIN Stmt
    /\ Stmt[pc].op = "write"
    /\ pin' = [pin EXCEPT ![Stmt[pc].p] = Stmt[pc].v]
    /\ mtrIdle' = IF Stmt[pc].p = MTR_PIN
                  THEN (IF Stmt[pc].v = LOW THEN 0 ELSE -1)
                  ELSE mtrIdle
    /\ pc' = NextLine(pc)
    /\ Returns(pc)
    /\ UNCHANGED <<rx, inByte, curMil, prevMil, sensorVal, irPin, clock, out,
                   src, inlog, elapsed, lit, litBz, age, ran, sawLow, started>>

\* delay(n): the clock advances by n ms and nothing else happens.
Delay ==
    /\ pc \in DOMAIN Stmt
    /\ Stmt[pc].op = "delay"
    /\ clock' = U32Add(clock, Stmt[pc].v)
    /\ Passes(Stmt[pc].v)
    /\ pc' = NextLine(pc)
    /\ Returns(pc)
    /\ UNCHANGED <<rx, inByte, curMil, prevMil, sensorVal, pin, irPin, out,
                   src, inlog, elapsed, ran, sawLow, started>>

TokenName(c) == IF c = ChR THEN "R" ELSE IF c = ChG THEN "G" ELSE "B"

\* Serial.println("R" / "G" / "B"): one token line.
PrintToken ==
    /\ pc \in DOMAIN Stmt
    /\ Stmt[pc].op = "print"
    /\ out' = Append(out, PrintlnChar(Stmt[pc].v))
    /\ src' = Append(src, "token")
    /\ age' = [age EXCEPT ![TokenName(Stmt[pc].v)] = 0]
    /\ pc' = NextLine(pc)
    /\ Returns(pc)
    /\ UNCHANGED <<rx, inByte, curMil, prevMil, sensorVal, pin, irPin, clock,
                   inlog, elapsed, lit, litBz, ran, sawLow, mtrIdle, started>>

\* One step of the sketch.
Step ==
    \/ ReadByte
    \/ EnterWait
    \/ WaitTest
    \/ WaitSample
    \/ WaitClock
    \/ PinWrite
    \/ Delay
    \/ PrintToken

Next ==
    \/ Step
    \/ Arrive
    \/ SensorChange
    \/ Tick
    \/ TickLong

Spec == Init /\ [][Next]_vars

\* The processor always runs the sketch, and the millisecond counter always
\* advances; the host and the sensor are under no obligation.
FairSpec == Spec /\ WF_vars(Step) /\ WF_vars(Tick)

TypeOK ==
    /\ pc \in {38, 43, 47, 50, 51} \cup DOMAIN Stmt
    /\ ran \in BOOLEAN /\ sawLow \in BOOLEAN
    /\ sensorVal \in {LOW, HIGH}
    /\ \A p \in OutPins : pin[p] \in {0, 1, 255}
    /\ Len(out) = Len(src)
    /\ finished <= started
    /\ started <= finished + 1

(* ---------------- vocabulary of the properties ---------------- *)

\* Line i of the output is the echo of byte b / the token with character c.
\* The echo of an input byte 'R' and the token R are the same bytes on the
\* link; src tells which statement wrote the line (line 40, or 60/69/77).
IsEcho(i, b) == src[i] = "echo" /\ out[i] = <<b, CR, LF>>
IsToken(i, c) == src[i] = "token" /\ out[i] = <<c, CR, LF>>

\* The bytes read so far: what the host sent less what still waits in rx.
ReadSoFar == SubSeq(inlog, 1, Len(inlog) - Len(rx))

\* Index of the last echo line, 0 when there is none.
LastEcho ==
    LET e == {i \in 1..Len(src) : src[i] = "echo"}
    IN  IF e = {} THEN 0 ELSE CHOOSE i \in e : \A j \in e : j <= i

\* The lines printed since, and including, the last echo.
CycleOut == IF LastEcho = 0 THEN <<>> ELSE SubSeq(out, LastEcho, Len(out))
CycleSrc == IF LastEcho = 0 THEN <<>> ELSE SubSeq(src, LastEcho, Len(src))

\* The output of one whole cycle: the echo of 'T', then R, G, B.
FullCycleOut == <<<<ChT, CR, LF>>, <<ChR, CR, LF>>, <<ChG, CR, LF>>, <<ChB, CR, LF>>>>
FullCycleSrc == <<"echo", "token", "token", "token">>

\* The Sequencer is back at the poll and the last cycle printed exactly the
\* echo of 'T' followed by R, G, B.
CycleDone ==
    /\ pc = 38
    /\ finished = started
    /\ CycleOut = FullCycleOut
    /\ CycleSrc = FullCycleSrc

SensorLow == irPin = LOW

(* ---------------- C1 ---------------- *)

\* C1 as stated: every 'T' read is followed by a complete cycle that printed
\* the echo of 'T' and then exactly R, G, B, whatever the sensor does.
C1_AlwaysTokens == (pc = 43) ~> CycleDone

\* C1 amended: provided the sensor reads LOW at every sample from some point
\* on, every 'T' read is followed by the echo of 'T' and then exactly the
\* tokens R, G, B, in that order and once each.
C1_TokensWhenSensorLow == (<>[]SensorLow) => ((pc = 43) ~> CycleDone)

\* A second 'T' has been read and its cycle has printed echo, R, G, B.
C1_Witness == CycleDone /\ started = 2 /\ Len(out) = 8

(* ---------------- C2 ---------------- *)

\* C2: in every state the output is well ordered: a token R directly follows
\* the echo of a 'T', a token G directly follows the token R and a token B
\* directly follows the token G, so tokens appear only inside a cycle whose
\* 'T' has been echoed, in the order R, G, B and at most once each; and a
\* token is only ever printed while a cycle is in progress.
C2_TokenOrder ==
    \A i \in 1..Len(out) :
        src[i] = "token" =>
            /\ i > 1
            /\ out[i][1] \in {ChR, ChG, ChB}
            /\ IsToken(i, ChR) => IsEcho(i - 1, ChT)
            /\ IsToken(i, ChG) => IsToken(i - 1, ChR)
            /\ IsToken(i, ChB) => IsToken(i - 1, ChG)
            /\ started >= 1
            /\ (i = Len(out) /\ pc # 38) => started = finished + 1

\* The host sent R before the trigger: the output holds the echo of that
\* byte, the echo of 'T' and the three tokens of the cycle.
C2_Witness ==
    /\ Len(out) = 5
    /\ IsEcho(1, ChR) /\ IsEcho(2, ChT)
    /\ IsToken(3, ChR) /\ IsToken(4, ChG) /\ IsToken(5, ChB)

(* ---------------- C3 ---------------- *)

Untouched ==
    /\ \A p \in OutPins : pin[p] = LOW
    /\ curMil = <<0, 0>>
    /\ prevMil = <<0, 0>>

\* C3: as long as no 'T' has been read, every byte read has been echoed
\* exactly once, in arrival order, the Sequencer is polling, no output pin
\* and no timestamp has been touched and no token has been printed; and when
\* the first 'T' is accepted after such bytes, the cycle starts from the same
\* untouched outputs and timestamps as it does when the 'T' comes first.
C3_NonTriggerIgnored ==
    /\ ReadSoFar \o rx = inlog
    /\ (started = 0 \/ (started = 1 /\ pc = 43)) =>
          /\ Len(out) = Len(ReadSoFar)
          /\ \A i \in 1..Len(out) : IsEcho(i, ReadSoFar[i])
          /\ Untouched
    /\ started = 0 =>
          /\ pc = 38
          /\ \A i \in 1..Len(ReadSoFar) : ReadSoFar[i] # ChT
    /\ (\A i \in 1..Len(inlog) : inlog[i] # ChT) => started = 0

\* The host sent t, X, T: the first two were echoed and ignored and the 'T'
\* has just been accepted.
C3_Witness ==
    /\ inlog = <<ChLowerT, ChX, ChT>>
    /\ rx = <<>>
    /\ pc = 43
    /\ Len(out) = 3

(* ---------------- C4 ---------------- *)

LedOf(c) == IF c = ChR THEN R_PIN ELSE IF c = ChG THEN G_PIN ELSE B_PIN
TokenOfPin(p) == IF p = R_PIN THEN "R" ELSE IF p = G_PIN THEN "G" ELSE "B"

\* A step that prints a token line.
PrintsToken == Len(src') = Len(src) + 1 /\ src'[Len(src')] = "token"

\* C4: every step that prints a token finds the token's own LED channel at
\* full output (255) and leaves it there, and the channel has been lit for
\* 0 ms when the token is printed: the token follows the LED at once.
C4_TokenWhileLit ==
    [][PrintsToken =>
          LET p == LedOf(out'[Len(out')][1])
          IN  pin[p] = 255 /\ pin'[p] = 255 /\ lit[p] = 0]_vars

\* The Green token has just been printed with the Green channel at 255.
C4_Witness == pc = 70 /\ age["G"] = 0 /\ pin[G_PIN] = 255 /\ IsToken(Len(out), ChG)

(* ---------------- C5 ---------------- *)

\* C5: in every cycle, once the wait-loop has been left at least 500 ms of
\* clock have passed since it was entered.
C5_MinWait ==
    (started > finished /\ pc \notin {43, 47, 48, 49, 50, 51}) => ElapsedAtLeast(500)

\* The wait-loop of a second cycle, entered with the timestamps of the first
\* cycle, has just been left after exactly 500 ms.
C5_Witness ==
    /\ started = 2 /\ pc = 53
    /\ elapsed = <<0, 500>>
    /\ sawLow

(* ---------------- C6 ---------------- *)

C6_Inv ==
    (started > finished /\ ~sawLow) =>
        /\ pc \in {43, 47, 48, 49, 50, 51}
        /\ pc # 43 => sensorVal = HIGH
        /\ IsEcho(Len(out), ChT)
        /\ (ran \/ pc \in {50, 51}) => (pin[BZZ_PIN] = HIGH /\ pin[MTR_PIN] = HIGH)

C6_Act == (pc = 47 /\ sensorVal = HIGH) => pc' \in {47, 48}

\* C6: the loop test never leaves the wait-loop while the latest sample is
\* HIGH, however much time has passed; and as long as no sample of the
\* cycle has read LOW the Sequencer is still in the wait-loop, the last line
\* printed is the echo of the 'T', and from the first pass through the body
\* on the buzzer and the motor are HIGH.
C6_SensorGate == [][C6_Act]_vars /\ []C6_Inv

\* The loop test is about to run with 500 ms passed and read by curMil, while
\* every sample so far read HIGH.
C6_Witness ==
    /\ pc = 47 /\ ran /\ ~sawLow /\ sensorVal = HIGH
    /\ ElapsedAtLeast(500)
    /\ ~U32Less(U32Sub(curMil, prevMil), 500)
    /\ pin[MTR_PIN] = HIGH /\ pin[BZZ_PIN] = HIGH

(* ---------------- C7 ---------------- *)

\* C7: if the sensor reads LOW from some point on, every wait-loop is left,
\* and every cycle that has been started and not finished, the first and
\* each later one alike, ends with the Sequencer back at the poll, no cycle
\* left unfinished, and the output since the cycle's 'T' was read being its
\* echo followed by exactly the tokens R, G, B.
C7_Terminates ==
    (<>[]SensorLow) =>
        ((InWaitLoop ~> (pc = 53)) /\ ((started > finished) ~> CycleDone))

\* A second cycle has finished with its echo and three tokens printed after
\* those of the first; its wait lasted until the sensor went LOW.
C7_Witness ==
    /\ CycleDone /\ started = 2 /\ finished = 2
    /\ Len(out) = 8
    /\ SubSeq(out, 1, 4) = FullCycleOut
    /\ irPin = LOW /\ elapsed = <<0, MaxWait>>

(* ---------------- C8 ---------------- *)

\* C8: in a cycle every LED channel is at full output for 600 ms in all, the
\* first 100 ms of it with the buzzer HIGH and the rest with the buzzer LOW,
\* the time a channel has been lit being the time since its token; G is
\* printed 600 ms after R and B 600 ms after G.
C8_PulseTiming ==
    /\ \A p \in LedPins :
          /\ lit[p] <= 600
          /\ litBz[p] <= 100
          /\ lit[p] > litBz[p] => litBz[p] = 100
          /\ (pin[p] = 255 /\ age[TokenOfPin(p)] >= 0) => age[TokenOfPin(p)] = lit[p]
          /\ (pin[p] = 0 /\ age[TokenOfPin(p)] >= 0) => (lit[p] = 600 /\ litBz[p] = 100)
    /\ age["G"] >= 0 => age["R"] - age["G"] = 600
    /\ age["B"] >= 0 => age["G"] - age["B"] = 600

\* A cycle has finished: each channel was lit 600 ms, 100 ms of it with the
\* buzzer, and the tokens are 600 ms apart.
C8_Witness ==
    /\ pc = 38 /\ finished = 1
    /\ \A p \in LedPins : lit[p] = 600 /\ litBz[p] = 100
    /\ age = [t \in Tokens |-> IF t = "R" THEN 1800 ELSE IF t = "G" THEN 1200 ELSE 600]

(* ---------------- C9 ---------------- *)

\* C9 as stated: after a cycle, while the Sequencer polls, Red and Green are
\* off and Blue is still at full output.
C9_BlueStaysLit ==
    (pc = 38 /\ finished >= 1) =>
        (pin[R_PIN] = 0 /\ pin[G_PIN] = 0 /\ pin[B_PIN] = 255)

\* C9 amended: the cycle deactivates all three channels: its last statement
\* (line 81) takes Blue from 255 to 0, so that while the Sequencer polls
\* after a cycle Red, Green and Blue are all off.
C9_AllChannelsOff ==
    /\ [][finished' = finished + 1 => (pin[B_PIN] = 255 /\ pin'[B_PIN] = 0)]_vars
    /\ []((pc = 38 /\ finished >= 1) => \A p \in LedPins : pin[p] = 0)

\* The poll after a first cycle: Blue was lit for its 600 ms and is off.
C9_Witness ==
    /\ pc = 38 /\ finished = 1 /\ rx = <<>>
    /\ lit[B_PIN] = 600 /\ pin[B_PIN] = 0

(* ---------------- C10 ---------------- *)

\* What the Sequencer prints for the bytes bs when every cycle runs whole:
\* the echo of each byte and, after the echo of a 'T', the three tokens.
RECURSIVE ExpectedOut(_)
ExpectedOut(bs) ==
    IF bs = <<>> THEN <<>>
    ELSE (IF Head(bs) = ChT THEN FullCycleOut ELSE <<<<Head(bs), CR, LF>>>>)
         \o ExpectedOut(Tail(bs))

C10_Act ==
    (pc # 38) =>
        /\ inByte' = inByte
        /\ Len(rx') >= Len(rx)
        /\ SubSeq(rx', 1, Len(rx)) = rx
        /\ Len(src') > Len(src) => src'[Len(src')] = "token"
        /\ started' = started

C10_Inv ==
    /\ started \in {finished, finished + 1}
    /\ (pc = 38) <=> (started = finished)
    /\ ReadSoFar \o rx = inlog
    /\ (pc = 38) => out = ExpectedOut(ReadSoFar)

\* C10: while a cycle is in progress no step reads or echoes a byte or
\* starts another cycle, and bytes that arrive only queue up behind those
\* already waiting; at most one cycle is in progress, and whenever the
\* Sequencer is back at the poll its output is the echo of each byte read so
\* far, in arrival order, with a whole R, G, B after every 'T'.
C10_NoPollInCycle == [][C10_Act]_vars /\ []C10_Inv

\* A cycle is at its last hold with X and T waiting unread; it has printed
\* its echo and its three tokens.
C10_Witness ==
    /\ pc = 80 /\ started = 1
    /\ rx = <<ChX, ChT>>
    /\ Len(out) = 4

(* ---------------- C11 ---------------- *)

\* C11: the motor is HIGH only from the wait-loop up to line 54, and never
\* while a LED channel is lit; in every cycle the body of the wait-loop has
\* run by the time the loop is left, and from its first pass on the motor
\* and the buzzer are HIGH inside the loop; lines 53-54 leave both LOW; and
\* a LED channel is at full output only with the motor LOW for at least
\* 500 ms.
C11_MotorOnlyInWait ==
    /\ pin[MTR_PIN] = HIGH =>
          /\ pc \in {47, 48, 49, 50, 51, 53, 54}
          /\ \A p \in LedPins : pin[p] = 0
    /\ (started > finished /\ pc \notin {43, 47, 48, 49, 50, 51}) => ran
    /\ (InWaitLoop /\ (ran \/ pc \in {50, 51})) =>
          (pin[MTR_PIN] = HIGH /\ pin[BZZ_PIN] = HIGH)
    /\ pc = 55 => (pin[MTR_PIN] = LOW /\ pin[BZZ_PIN] = LOW /\ mtrIdle = 0)
    /\ (started > finished /\ pc \notin {43, 47, 48, 49, 50, 51, 53, 54}) =>
          (pin[MTR_PIN] = LOW /\ mtrIdle >= 0)
    /\ \A p \in LedPins :
          pin[p] = 255 => (pin[MTR_PIN] = LOW /\ mtrIdle >= 500)

\* A second 'T' was accepted with the sensor LOW and with timestamps of the
\* first cycle that already satisfy the time test: the body has driven the
\* buzzer and the motor all the same.
C11_Witness ==
    /\ started = 2 /\ pc = 50 /\ ~ran
    /\ irPin = LOW /\ elapsed = <<0, 0>>
    /\ ~U32Less(U32Sub(curMil, prevMil), 500)
    /\ pin[MTR_PIN] = HIGH /\ pin[BZZ_PIN] = HIGH

(* ---------------- C12 ---------------- *)

LitChannels == {p \in LedPins : pin[p] = 255}

\* C12: in every state at most one of the Red, Green and Blue channels is at
\* full output, and a channel is either off or at full output.
C12_OneChannelLit ==
    /\ Cardinality(LitChannels) <= 1
    /\ \A p \in LedPins : pin[p] \in {0, 255}

\* In a second cycle Green alone is lit, its token just printed.
C12_Witness ==
    /\ started = 2 /\ pc = 70
    /\ LitChannels = {G_PIN}

(* ---------------- C13 ---------------- *)

\* C13: the LED-common pin is LOW in every state, and whenever the Sequencer
\* is at the poll, before any cycle and after each one, the buzzer, the
\* motor and the three LED channels are all inactive.
C13_IdleOutputsOff ==
    /\ pin[LO_PIN] = LOW
    /\ (pc = 38) => \A p \in OutPins : pin[p] = LOW

\* The poll after two completed cycles, every output inactive.
C13_Witness ==
    /\ pc = 38 /\ finished = 2 /\ rx = <<>>
    /\ \A p \in OutPins : pin[p] = LOW
    /\ mtrIdle > 0

(* ---------------- C14 ---------------- *)

\* The 32-bit difference the loop test looks at.
TimeDiff == U32Sub(curMil, prevMil)

\* a <= b for two 32-bit values.
U32Leq(a, b) == a[1] < b[1] \/ (a[1] = b[1] /\ a[2] <= b[2])

\* Reading the clock (line 51) makes the difference the time that has really
\* passed since the loop was entered, whatever the clock was at entry and
\* however long the wait has been.
C14_Read == (pc = 51 /\ pc' = 47) => U32Sub(curMil', prevMil) = elapsed

\* No other step of the wait-loop changes the two timestamps.
C14_Keep ==
    (InWaitLoop /\ ~(pc = 51 /\ pc' = 47)) =>
        (curMil' = curMil /\ prevMil' = prevMil)

\* The loop test (line 47) leaves the loop exactly when the body has run, the
\* sample of that pass read LOW and the clock reading that followed it was
\* at least 500 ms after entry.
C14_Exit ==
    (pc = 47 /\ pc' # 47) =>
        (pc' = 53 <=>
            (ran /\ sensorVal = LOW /\ (TimeDiff[1] > 0 \/ TimeDiff[2] >= 500)))

\* Once the clock has been read in the loop, the difference is the time of
\* the latest reading, which is not later than now.
C14_Inv == (InWaitLoop /\ ran) => U32Leq(TimeDiff, elapsed)

\* C14: for the clock values at loop entry that are met, those before the
\* rollover of the counter included, and for waits of any length below
\* 2^32 ms, curMil - prevMil modulo 2^32 is the time passed between loop
\* entry and the latest clock reading, and the loop is left at the first
\* test that finds a LOW sample followed by a reading at least 500 ms after
\* entry, never before and never later.
C14_ElapsedTest == [][C14_Read /\ C14_Keep /\ C14_Exit]_vars /\ []C14_Inv

\* The loop was entered 300 ms before the counter rolls over and has just
\* been left after a wait of one short step and one long one: the counter
\* has rolled over meanwhile, and the difference that ended the wait has a
\* high half above zero and a low half that alone is short of 500.
C14_Witness ==
    /\ pc = 53
    /\ prevMil = <<65535, 65236>>
    /\ elapsed = <<LongHi, TickMs>>
    /\ TimeDiff = elapsed

====
